---------------------------- MODULE Spec2Model ----------------------------
(***************************************************************************)
(* Model of converter.py: the NIfTI -> MIP (maximum intensity projection)  *)
(* converter.  The driver main() is a step machine (Loading, Validating,   *)
(* Rendering, Exporting); set_min_max_threshold_value, scale_image_data    *)
(* and get_image_slices_data are operators computed as numpy computes      *)
(* them.                                                                   *)
(*                                                                         *)
(* Numbers.  An intensity is an integer count of units of 1/Den; the       *)
(* count k stands for the float64 nearest to k/Den.  Percentile            *)
(* interpolation is computed exactly on the counts (the percentiles of the *)
(* model have binary-fraction weights, so float64 computes them exactly on *)
(* integer intensities).  scale_image_data is computed in float64, bit for *)
(* bit: a float64 is [m |-> mantissa, e |-> exponent] of value m * 2^e,    *)
(* the mantissa a little-endian sequence of base-2^20 limbs.               *)
(***************************************************************************)
EXTENDS Integers, Sequences, FiniteSets

(***************************************************************************)
(* Natural numbers wider than 31 bits: little-endian limb sequences        *)
(* without leading zero limbs; << >> is zero.                              *)
(***************************************************************************)
LimbBase == 1024 * 1024

RECURSIVE BStrip(_)
BStrip(a) ==
    IF a = << >> THEN << >>
    ELSE IF a[Len(a)] = 0 THEN BStrip(SubSeq(a, 1, Len(a) - 1)) ELSE a

BLimb(a, i) == IF i <= Len(a) THEN a[i] ELSE 0

BMaxLen(a, b) == IF Len(a) >= Len(b) THEN Len(a) ELSE Len(b)

RECURSIVE BCmpAt(_, _, _)
BCmpAt(a, b, i) ==
    IF i = 0 THEN 0
    ELSE IF BLimb(a, i) > BLimb(b, i) THEN 1
    ELSE IF BLimb(a, i) < BLimb(b, i) THEN -1
    ELSE BCmpAt(a, b, i - 1)

\* -1, 0 or 1 as a < b, a = b, a > b
BCmp(a, b) == BCmpAt(a, b, BMaxLen(a, b))

RECURSIVE BAddAt(_, _, _, _)
BAddAt(a, b, i, carry) ==
    IF i > BMaxLen(a, b)
    THEN IF carry = 0 THEN << >> ELSE << carry >>
    ELSE LET s == BLimb(a, i) + BLimb(b, i) + carry
         IN  << s % LimbBase >> \o BAddAt(a, b, i + 1, s \div LimbBase)

BAdd(a, b) == BAddAt(a, b, 1, 0)

RECURSIVE BSubAt(_, _, _, _)
BSubAt(a, b, i, borrow) ==
    IF i > Len(a) THEN << >>
    ELSE LET s == BLimb(a, i) - BLimb(b, i) - borrow
         IN  IF s < 0
             THEN << s + LimbBase >> \o BSubAt(a, b, i + 1, 1)
             ELSE << s >> \o BSubAt(a, b, i + 1, 0)

\* a - b, for a >= b
BSub(a, b) == BStrip(BSubAt(a, b, 1, 0))

RECURSIVE BMulAt(_, _, _, _)
BMulAt(a, c, i, carry) ==
    IF i > Len(a)
    THEN IF carry = 0 THEN << >> ELSE << carry >>
    ELSE LET s == a[i] * c + carry
         IN  << s % LimbBase >> \o BMulAt(a, c, i + 1, s \div LimbBase)

\* a * c, for a small factor 0 <= c < 2^10
BMulSmall(a, c) == BStrip(BMulAt(a, c, 1, 0))

RECURSIVE BHalfAt(_, _)
BHalfAt(a, i) ==
    IF i > Len(a) THEN << >>
    ELSE << (a[i] \div 2) + (BLimb(a, i + 1) % 2) * (LimbBase \div 2) >>
         \o BHalfAt(a, i + 1)

\* floor(a / 2)
BHalf(a) == BStrip(BHalfAt(a, 1))

BOdd(a) == a # << >> /\ a[1] % 2 = 1

\* a * 2^k.  The loops over bits carry their state in one record, which is
\* built (hence evaluated) at every turn.
RECURSIVE BShlLoop(_)
BShlLoop(st) ==
    IF st.k = 0 THEN st.a
    ELSE LET nx == [a |-> BMulSmall(st.a, 2), k |-> st.k - 1]
         IN  BShlLoop(nx)

BShl(a, k) == LET st == [a |-> a, k |-> k] IN BShlLoop(st)

RECURSIVE BitsOfLimb(_)
BitsOfLimb(x) == IF x = 0 THEN 0 ELSE 1 + BitsOfLimb(x \div 2)

\* number of significant bits of a
BBitLen(a) ==
    IF a = << >> THEN 0 ELSE 20 * (Len(a) - 1) + BitsOfLimb(a[Len(a)])

BFromInt(n) == BStrip(<< n % LimbBase, n \div LimbBase >>)

\* the value of a one-limb number
BToInt(a) == IF a = << >> THEN 0 ELSE a[1]


(***************************************************************************)
(* IEEE-754 binary64 with round-to-nearest-even, for the non-negative      *)
(* values that line 52 computes (numpy evaluates the expression element by *)
(* element in float64).  A number is zero (m = << >>) or normalised: its   *)
(* mantissa m has exactly MantBits bits.  Exponent range is not modelled:  *)
(* the intensities of the model are far from overflow and underflow.       *)
(***************************************************************************)
MantBits == 53

Den == 4 * 5

FZero == [k |-> "num", m |-> << >>, e |-> 0]

FNaN == [k |-> "nan", m |-> << >>, e |-> 0]

FInf == [k |-> "inf", m |-> << >>, e |-> 0]

IsZero(x) == x.k = "num" /\ x.m = << >>

\* n halved k times: the quotient, the last bit shifted out (g) and whether
\* any earlier bit shifted out was set (s)
RECURSIVE ShiftLoop(_)
ShiftLoop(st) ==
    IF st.k = 0 THEN st
    ELSE LET nx == [q |-> BHalf(st.q), k |-> st.k - 1, g |-> BOdd(st.q),
                    s |-> st.s \/ st.g]
         IN  ShiftLoop(nx)

ShiftRN(n, k, g, s) ==
    LET st == [q |-> n, k |-> k, g |-> g, s |-> s] IN ShiftLoop(st)

\* the float64 nearest to n * 2^e, ties to even
FRound(n, e) ==
    IF n = << >> THEN FZero
    ELSE LET len == BBitLen(n)
         IN  IF len <= MantBits
             THEN [k |-> "num", m |-> BShl(n, MantBits - len),
                   e |-> e - (MantBits - len)]
             ELSE LET d  == len - MantBits
                      r  == ShiftRN(n, d, FALSE, FALSE)
                      up == r.g /\ (r.s \/ BOdd(r.q))
                      q1 == IF up THEN BAdd(r.q, << 1 >>) ELSE r.q
                  IN  IF BBitLen(q1) > MantBits
                      THEN [k |-> "num", m |-> BHalf(q1), e |-> e + d + 1]
                      ELSE [k |-> "num", m |-> q1, e |-> e + d]

FInt(n) == FRound(BFromInt(n), 0)

\* x - y for 0 <= y <= x
FSub(x, y) ==
    IF IsZero(y) THEN x
    ELSE FRound(BSub(BShl(x.m, x.e - y.e), y.m), y.e)

\* x * c for a small integer factor c
FMulSmall(x, c) ==
    IF x.k # "num" THEN x ELSE FRound(BMulSmall(x.m, c), x.e)

\* binary long division: t + 1 quotient bits of r / d, for r < 2 * d
DivStep(st, d) ==
    LET ge == BCmp(st.r, d) >= 0
        r1 == IF ge THEN BSub(st.r, d) ELSE st.r
    IN  [q |-> BAdd(BMulSmall(st.q, 2), IF ge THEN << 1 >> ELSE << >>),
         r |-> IF st.t = 0 THEN r1 ELSE BMulSmall(r1, 2),
         t |-> st.t - 1]

RECURSIVE DivRun(_, _)
DivRun(st, d) ==
    IF st.t < 0 THEN st ELSE LET nx == DivStep(st, d) IN DivRun(nx, d)

DivLoop(r, d, q, t) ==
    LET st == [q |-> q, r |-> r, t |-> t] IN DivRun(st, d)

\* x / y; 0 / 0 is NaN and x / 0 is inf (numpy warns, it does not raise)
FDiv(x, y) ==
    IF x.k # "num" \/ y.k # "num" THEN FNaN
    ELSE IF IsZero(y) THEN (IF IsZero(x) THEN FNaN ELSE FInf)
    ELSE IF IsZero(x) THEN FZero
    ELSE LET dv == DivLoop(x.m, y.m, << >>, MantBits + 2)
             n  == BAdd(BMulSmall(dv.q, 2),
                        IF dv.r = << >> THEN << >> ELSE << 1 >>)
         IN  FRound(n, x.e - y.e - (MantBits + 3))

\* the float64 an intensity count stands for: the nearest to k / Den
FromNum(k) == FDiv(FInt(k), FInt(Den))

\* floor of a finite x >= 0, reduced to 8 bits
FTruncU8(x) ==
    IF IsZero(x) \/ x.e <= -MantBits THEN 0
    ELSE IF x.e >= 0 THEN BToInt(BShl(x.m, x.e)) % 256
    ELSE BToInt(ShiftRN(x.m, -x.e, FALSE, FALSE).q) % 256

(***************************************************************************)
(* Arrays.  A 2-D array is a sequence of rows, a 3-D volume a sequence     *)
(* (axis 0) of sequences (axis 1) of sequences (axis 2).                   *)
(***************************************************************************)
Rows(a) == Len(a)

Cols(a) == Len(a[1])

Shape2(a) == << Rows(a), Cols(a) >>

Cells(a) == (1..Rows(a)) \X (1..Cols(a))

MaxOf(S) == CHOOSE x \in S : \A y \in S : y <= x

MinOf(S) == CHOOSE x \in S : \A y \in S : x <= y

\* numpy.ravel: the elements in row-major order
RECURSIVE Flatten(_)
Flatten(a) == IF a = << >> THEN << >> ELSE a[1] \o Flatten(Tail(a))

RECURSIVE Insert(_, _)
Insert(x, srt) ==
    IF srt = << >> THEN << x >>
    ELSE IF x <= srt[1] THEN << x >> \o srt
    ELSE << srt[1] >> \o Insert(x, Tail(srt))

RECURSIVE Sorted(_)
Sorted(sq) == IF sq = << >> THEN << >> ELSE Insert(sq[1], Sorted(Tail(sq)))

(***************************************************************************)
(* numpy.percentile(a, q), default (linear) interpolation: the value at    *)
(* the virtual index q/100 * (n - 1) of the sorted elements.  q is in      *)
(* percent.  It raises ValueError unless 0 <= q <= 100.                    *)
(***************************************************************************)
PercentileValid(q) == 0 <= q /\ q <= 100

Percentile(a, q) ==
    LET srt  == Sorted(Flatten(a))
        n    == Len(srt)
        vi   == q * (n - 1)
        lo   == vi \div 100
        frac == vi % 100
        hi   == IF lo + 2 <= n THEN lo + 2 ELSE n
    IN  srt[lo + 1] + ((srt[hi] - srt[lo + 1]) * frac) \div 100

Info(msg) == [level |-> "info", msg |-> msg]

Error(msg) == [level |-> "error", msg |-> msg]

\* lines 33-34: the two masked assignments, one after the other
ClipLow(a, lowv) ==
    [i \in 1..Rows(a) |->
        [j \in 1..Cols(a) |-> IF a[i][j] < lowv THEN lowv ELSE a[i][j]]]

ClipHigh(a, highv) ==
    [i \in 1..Rows(a) |->
        [j \in 1..Cols(a) |-> IF a[i][j] > highv THEN highv ELSE a[i][j]]]

\* Variants of the clipper, each a slip the properties must tell from the
\* code: the upper bound applied before the lower one; a percentile out of
\* range clamped into [0, 100] instead of skipping the clip.
set_min_max_high_first(image_data, threshold_percentile) ==
    IF PercentileValid(threshold_percentile)
    THEN [data |-> ClipLow(ClipHigh(image_data,
                                    Percentile(image_data, threshold_percentile)),
                           Percentile(image_data, 100 - threshold_percentile)),
          log  |-> << Info("threshold") >>]
    ELSE [data |-> image_data,
          log  |-> << Info("threshold"), Error("percentile range") >>]

set_min_max_clamped(image_data, threshold_percentile) ==
    LET q == IF threshold_percentile < 0 THEN 0
             ELSE IF threshold_percentile > 100 THEN 100
             ELSE threshold_percentile
    IN  [data |-> ClipHigh(ClipLow(image_data, Percentile(image_data, 100 - q)),
                           Percentile(image_data, q)),
         log  |-> IF PercentileValid(threshold_percentile)
                  THEN << Info("threshold") >>
                  ELSE << Info("threshold"), Error("percentile range") >>]

\* set_min_max_threshold_value: the array returned and the records logged.
\* ValueError is raised by the first percentile call, before any assignment.
set_min_max_threshold_value(image_data, threshold_percentile) ==
    IF PercentileValid(threshold_percentile)
    THEN LET max_threshold_value == Percentile(image_data, threshold_percentile)
             min_threshold_value ==
                 Percentile(image_data, 100 - threshold_percentile)
         IN  [data |-> ClipHigh(ClipLow(image_data, min_threshold_value),
                                max_threshold_value),
              log  |-> << Info("threshold") >>]
    ELSE [data |-> image_data,
          log  |-> << Info("threshold"), Error("percentile range") >>]

(***************************************************************************)
(* scale_image_data, line 52-53, element by element in float64:            *)
(*     ((x - min) * 255 / (max - min)).astype(uint8)                       *)
(* For a constant array every quotient is 0/0 = NaN (numpy warns and goes  *)
(* on); the cast of NaN to uint8 is undefined in C.  The conversion is one  *)
(* instruction of the build, applied alike to every element, so all the    *)
(* NaN elements of a call take the same outcome, nan_cast.                 *)
(***************************************************************************)
UInt8Max == 255

CastU8(q, undefined) == IF q.k = "num" THEN FTruncU8(q) ELSE undefined

scale_image_data(image_data, nan_cast) ==
    LET vals == {image_data[c[1]][c[2]] : c \in Cells(image_data)}
        fmin == FromNum(MinOf(vals))
        fmax == FromNum(MaxOf(vals))
        span == FSub(fmax, fmin)
        one(v) == FDiv(FMulSmall(FSub(FromNum(v), fmin), UInt8Max), span)
        byv  == [v \in vals |-> one(v)]
    IN  [i \in 1..Rows(image_data) |->
            [j \in 1..Cols(image_data) |->
                CastU8(byv[image_data[i][j]], nan_cast)]]

IsConstant(a) == \A c, d \in Cells(a) : a[c[1]][c[2]] = a[d[1]][d[2]]

(***************************************************************************)
(* get_image_slices_data: numpy.amax along axis 0, 1 and 2.                *)
(***************************************************************************)
DimX(v) == Len(v)

DimY(v) == Len(v[1])

DimZ(v) == Len(v[1][1])

\* variant: the smallest value along axis 0
AminAxis0(v) ==
    [y \in 1..DimY(v) |-> [z \in 1..DimZ(v) |->
        MinOf({v[x][y][z] : x \in 1..DimX(v)})]]

AmaxAxis0(v) ==
    [y \in 1..DimY(v) |-> [z \in 1..DimZ(v) |->
        MaxOf({v[x][y][z] : x \in 1..DimX(v)})]]

AmaxAxis1(v) ==
    [x \in 1..DimX(v) |-> [z \in 1..DimZ(v) |->
        MaxOf({v[x][y][z] : y \in 1..DimY(v)})]]

AmaxAxis2(v) ==
    [x \in 1..DimX(v) |-> [y \in 1..DimY(v) |->
        MaxOf({v[x][y][z] : z \in 1..DimZ(v)})]]

get_image_slices_data(image_data) ==
    << AmaxAxis0(image_data), AmaxAxis1(image_data), AmaxAxis2(image_data) >>

(***************************************************************************)
(* PIL.  An image of mode L is its pixel rows: px[y + 1][x + 1] is the     *)
(* pixel at (x, y); fromarray keeps the array's rows.                      *)
(***************************************************************************)
Image_fromarray(a) == a

ImageOps_invert(img) ==
    [i \in 1..Rows(img) |-> [j \in 1..Cols(img) |-> UInt8Max - img[i][j]]]

\* variant: a quarter turn clockwise
Image_rotate270(img) ==
    LET w == Cols(img)
        h == Rows(img)
    IN  [i \in 1..h |-> [j \in 1..w |->
            LET x   == j - 1
                y   == i - 1
                xin == ((w - h + 1) \div 2) + y
                yin == ((w + h - 1) \div 2) - x
            IN  IF 0 <= xin /\ xin < w /\ 0 <= yin /\ yin < h
                THEN img[yin + 1][xin + 1]
                ELSE 0]]

\* Image.rotate(90): the output keeps the input's size (expand is off).  A
\* square image is transposed (ROTATE_90); any other goes through the affine
\* transform about the centre with nearest-neighbour sampling, which reads
\* source pixel (xin, yin) for output pixel (x, y) and leaves 0 where the
\* source lies outside the image.
Image_rotate90(img) ==
    LET w == Cols(img)
        h == Rows(img)
    IN  [i \in 1..h |-> [j \in 1..w |->
            LET x   == j - 1
                y   == i - 1
                xin == ((w + h - 1) \div 2) - y
                yin == ((h - w + 1) \div 2) + x
            IN  IF 0 <= xin /\ xin < w /\ 0 <= yin /\ yin < h
                THEN img[yin + 1][xin + 1]
                ELSE 0]]

(***************************************************************************)
(* Inputs of the model.                                                    *)
(***************************************************************************)
\* intensities of the volumes are the integers 0..MaxVal
MaxVal == 2

\* a volume is zero but for at most MaxHot voxels
MaxHot == 1

\* what the cast of NaN to uint8 leaves in an element: the low byte of the
\* integer the build's conversion gives for NaN, 0 where that integer is
\* 0 or the smallest one, 255 where it is the largest one
NaNCastOutcomes == {0, UInt8Max}

\* threshold_percentile, in percent.  The weights of these percentiles are
\* binary fractions.  (main's default, 98.5, gives weights float64 cannot
\* represent: the scaled value of the largest element then hangs on the last
\* bit of the interpolated threshold.)
Percentiles == {-25, 0, 25, 50, 75, 100, 125}

MainPercentiles == {-25, 75, 125}

\* the shapes of the 3-D volumes nib.load yields
VolumeShapes == { <<2, 2, 1>>, <<1, 2, 2>>, <<1, 1, 2>>, <<2, 1, 1>> }

Voxels(sh) == (1..sh[1]) \X (1..sh[2]) \X (1..sh[3])

\* the volumes of shape sh: a set of hot voxels and their intensities
VolumesOf(sh) ==
    { [x \in 1..sh[1] |-> [y \in 1..sh[2] |-> [z \in 1..sh[3] |->
          IF << x, y, z >> \in hot THEN Den * val[<< x, y, z >>] ELSE 0]]] :
      << hot, val >> \in
          UNION { {h} \X [h -> 1..MaxVal] :
                  h \in {hh \in SUBSET Voxels(sh) : Cardinality(hh) <= MaxHot} } }

PyInt(n) == [int |-> TRUE, n |-> n]

NotInt(n) == [int |-> FALSE, n |-> n]

ShapeOf(sh) == [i \in 1..Len(sh) |-> PyInt(sh[i])]

\* what nib.load returns: images of 3 dimensions with their data, and images
\* that are not: of 2 or 4 dimensions, or with a dimension that is no int
Images3D ==
    UNION { { [shape |-> ShapeOf(sh), dataobj |-> v] : v \in VolumesOf(sh) } :
            sh \in VolumeShapes }

ImagesOther ==
    { [shape |-> s, dataobj |-> << >>] :
      s \in { ShapeOf(<< 2, 2 >>), ShapeOf(<< 2, 2, 1, 3 >>),
              << PyInt(2), NotInt(2), PyInt(1) >> } }

\* nib.load raises ImageFileError for a file it cannot read as an image
\* (empty, unrecognised) and FileNotFoundError for a path that is missing
LoadErrors == {"ImageFileError", "FileNotFoundError"}

\* all volumes and 2-D arrays of integer intensities of a shape
AllVolumesOf(sh) ==
    { [x \in 1..sh[1] |-> [y \in 1..sh[2] |-> [z \in 1..sh[3] |->
          Den * f[<< x, y, z >>]]]] : f \in [Voxels(sh) -> 0..MaxVal] }

ArraysOf(sh, counts) ==
    { [i \in 1..sh[1] |-> [j \in 1..sh[2] |-> f[<< i, j >>]]] :
      f \in [(1..sh[1]) \X (1..sh[2]) -> counts] }

\* inputs of the calls studied one function at a time
SliceVolumes ==
    UNION { AllVolumesOf(sh) : sh \in { <<1, 2, 3>>, <<3, 1, 2>>, <<2, 2, 1>> } }

ClipArrays ==
    UNION { ArraysOf(sh, {Den * v : v \in 0..MaxVal}) :
            sh \in { <<2, 2>>, <<1, 3>> } }

\* intensities in tenths, 0.0 .. MaxTenths/10
MaxTenths == 11

ScaleArrays ==
    UNION { ArraysOf(sh, {(Den \div 10) * t : t \in 0..MaxTenths}) :
            sh \in { <<1, 2>>, <<2, 1>>, <<1, 3>> } }

\* file names, as sequences of pieces; ".nii" is one piece
Filenames == { << "scan", ".nii", ".gz" >> }

(***************************************************************************)
(* check_nifti_dimension, create_mips_file_name                            *)
(***************************************************************************)
\* variant: the number of dimensions is not checked
check_only_int(nifti_image_shape) ==
    \A i \in 1..Len(nifti_image_shape) : nifti_image_shape[i].int

check_nifti_dimension(nifti_image_shape) ==
    (\A i \in 1..Len(nifti_image_shape) : nifti_image_shape[i].int)
    /\ Len(nifti_image_shape) = 3

\* filename.split(".nii")[0]
RECURSIVE BeforeNii(_)
BeforeNii(name) ==
    IF name = << >> \/ name[1] = ".nii" THEN << >>
    ELSE << name[1] >> \o BeforeNii(Tail(name))

create_mips_file_name(name, file_type) ==
    BeforeNii(name) \o << "_", file_type >>

FileTypes == << "MIPs_sag.png", "MIPs_cor.png", "MIPs_ax.png" >>

(***************************************************************************)
(* The driver main(output_folder, filepath, filename, threshold_percentile,*)
(* invert_image), one step at a time.                                      *)
(*   pc         Loading, Validating, Rendering, Exporting, Done, Aborted   *)
(*   exit_code  the status the process ends with, -1 while it runs         *)
(*   raised     the exception that ended main: SystemExit (os.sys.exit),   *)
(*              one main does not catch, or "none"                         *)
(*   log        the records logged, in order                               *)
(*   files      the names of the images written to output_folder           *)
(*   mips       sagittal, coronal, axial: the projections, each replaced   *)
(*              by its image as process_mips returns                       *)
(*   cur, step  the projection process_mips works on and its next line;    *)
(*              in Exporting, cur is the image to save next                *)
(*   call       the call under study, in the specifications of a single    *)
(*              function                                                   *)
(***************************************************************************)
VARIABLES pc, exit_code, raised, log, files, filename, threshold_percentile,
          invert_image, nifti_file, image_data, mips, cur, step,
          updated_image_data, img, call

vars == << pc, exit_code, raised, log, files, filename, threshold_percentile,
           invert_image, nifti_file, image_data, mips, cur, step,
           updated_image_data, img, call >>

args == << filename, threshold_percentile, invert_image >>

NoCall == [fn |-> "none"]

Init ==
    /\ pc = "Loading"
    /\ exit_code = -1
    /\ raised = "none"
    /\ log = << >>
    /\ files = {}
    /\ filename \in Filenames
    /\ threshold_percentile \in MainPercentiles
    /\ invert_image \in BOOLEAN
    /\ nifti_file = << >>
    /\ image_data = << >>
    /\ mips = << >>
    /\ cur = 0
    /\ step = "none"
    /\ updated_image_data = << >>
    /\ img = << >>
    /\ call = NoCall

\* variant: os.sys.exit(0)
Exit0(records) ==
    /\ log' = log \o records
    /\ pc' = "Aborted"
    /\ exit_code' = 0
    /\ raised' = "SystemExit"

\* os.sys.exit(1) after the records logged
Exit1(records) ==
    /\ log' = log \o records
    /\ pc' = "Aborted"
    /\ exit_code' = 1
    /\ raised' = "SystemExit"

\* an exception main does not catch: the interpreter prints the traceback
\* and ends with status 1; nothing is logged
Uncaught(exc, records) ==
    /\ log' = log \o records
    /\ pc' = "Aborted"
    /\ exit_code' = 1
    /\ raised' = exc

\* lines 113-119
Load ==
    /\ pc = "Loading"
    /\ \/ \E im \in Images3D \cup ImagesOther :
            /\ nifti_file' = im
            /\ log' = Append(log, Info("loading"))
            /\ pc' = "Validating"
            /\ UNCHANGED << exit_code, raised >>
       \/ \E exc \in LoadErrors :
            /\ IF exc = "ImageFileError"
               THEN Exit1(<< Info("loading"), Error("load") >>)
               ELSE Uncaught(exc, << Info("loading") >>)
            /\ UNCHANGED nifti_file
    /\ UNCHANGED << files, args, image_data, mips, cur, step,
                    updated_image_data, img, call >>

\* lines 121, 164-167
Validate ==
    /\ pc = "Validating"
    /\ IF check_nifti_dimension(nifti_file.shape)
       THEN /\ pc' = "Rendering"
            /\ step' = "slices"
            /\ UNCHANGED << exit_code, raised, log >>
       ELSE /\ Exit1(<< Error("dimension"), Info("exiting") >>)
            /\ UNCHANGED step
    /\ UNCHANGED << files, args, nifti_file, image_data, mips, cur,
                    updated_image_data, img, call >>

\* lines 124-126
Slices ==
    /\ pc = "Rendering" /\ step = "slices"
    /\ image_data' = nifti_file.dataobj
    /\ mips' = get_image_slices_data(image_data')
    /\ cur' = 1
    /\ step' = "clip"
    /\ UNCHANGED << pc, exit_code, raised, log, files, args, nifti_file,
                    updated_image_data, img, call >>

\* process_mips, line 68.  The clipper assigns in place: the projection and
\* updated_image_data are one array.
Clip ==
    /\ pc = "Rendering" /\ step = "clip"
    /\ LET r == set_min_max_threshold_value(mips[cur], threshold_percentile)
       IN  /\ updated_image_data' = r.data
           /\ mips' = [mips EXCEPT ![cur] = r.data]
           /\ log' = log \o r.log
    /\ step' = "scale"
    /\ UNCHANGED << pc, exit_code, raised, files, args, nifti_file,
                    image_data, cur, img, call >>

\* the outcome of the undefined cast matters for a constant array only
CastChoices(a) == IF IsConstant(a) THEN NaNCastOutcomes ELSE {0}

\* process_mips, line 70
Scale ==
    /\ pc = "Rendering" /\ step = "scale"
    /\ \E nan_cast \in CastChoices(updated_image_data) :
          updated_image_data' = scale_image_data(updated_image_data, nan_cast)
    /\ log' = Append(log, Info("scaling"))
    /\ step' = "convert"
    /\ UNCHANGED << pc, exit_code, raised, files, args, nifti_file,
                    image_data, mips, cur, img, call >>

\* process_mips, line 72
Convert ==
    /\ pc = "Rendering" /\ step = "convert"
    /\ img' = Image_fromarray(updated_image_data)
    /\ step' = "invert"
    /\ UNCHANGED << pc, exit_code, raised, log, files, args, nifti_file,
                    image_data, mips, cur, updated_image_data, call >>

\* process_mips, lines 74-77
Invert ==
    /\ pc = "Rendering" /\ step = "invert"
    /\ IF invert_image
       THEN /\ log' = Append(log, Info("inverting"))
            /\ img' = ImageOps_invert(img)
       ELSE UNCHANGED << log, img >>
    /\ step' = "rotate"
    /\ UNCHANGED << pc, exit_code, raised, files, args, nifti_file,
                    image_data, mips, cur, updated_image_data, call >>

\* process_mips, lines 80-83, and the assignment of its result in main
\* (lines 129-131)
Rotate ==
    /\ pc = "Rendering" /\ step = "rotate"
    /\ log' = Append(log, Info("resizing"))
    /\ img' = Image_rotate90(img)
    /\ mips' = [mips EXCEPT ![cur] = img']
    /\ IF cur < 3
       THEN /\ cur' = cur + 1
            /\ step' = "clip"
            /\ UNCHANGED pc
       ELSE /\ cur' = 1
            /\ step' = "save"
            /\ pc' = "Exporting"
    /\ UNCHANGED << exit_code, raised, files, args, nifti_file, image_data,
                    updated_image_data, call >>

SaveOutcomes == {"written", "OSError"}

\* variant: a failed save removes the images already written
SaveWithRollback ==
    /\ pc = "Exporting" /\ step = "save"
    /\ \E outcome \in SaveOutcomes :
        LET started == IF cur = 1 THEN << Info("exporting") >> ELSE << >>
        IN  IF outcome = "written"
            THEN /\ files' = files \cup
                        {create_mips_file_name(filename, FileTypes[cur])}
                 /\ IF cur < 3
                    THEN /\ cur' = cur + 1
                         /\ log' = log \o started
                         /\ UNCHANGED << pc, exit_code, step >>
                    ELSE /\ log' = (log \o started) \o << Info("success") >>
                         /\ pc' = "Done"
                         /\ exit_code' = 0
                         /\ step' = "none"
                         /\ UNCHANGED cur
                 /\ UNCHANGED raised
            ELSE /\ log' = (log \o started) \o << Error("save") >>
                 /\ pc' = "Aborted"
                 /\ exit_code' = 1
                 /\ raised' = "SystemExit"
                 /\ files' = {}
                 /\ UNCHANGED << cur, step >>
    /\ UNCHANGED << args, nifti_file, image_data, mips, updated_image_data,
                    img, call >>

\* lines 133-162: the three saves, in the order of FileTypes; an exception of
\* a save is caught at line 157
Save ==
    /\ pc = "Exporting" /\ step = "save"
    /\ \E outcome \in SaveOutcomes :
        LET started == IF cur = 1 THEN << Info("exporting") >> ELSE << >>
        IN  IF outcome = "written"
            THEN /\ files' = files \cup
                        {create_mips_file_name(filename, FileTypes[cur])}
                 /\ IF cur < 3
                    THEN /\ cur' = cur + 1
                         /\ log' = log \o started
                         /\ UNCHANGED << pc, exit_code, step >>
                    ELSE /\ log' = (log \o started) \o << Info("success") >>
                         /\ pc' = "Done"
                         /\ exit_code' = 0
                         /\ step' = "none"
                         /\ UNCHANGED cur
                 /\ UNCHANGED raised
            ELSE /\ Exit1(started \o << Error("save") >>)
                 /\ UNCHANGED << files, cur, step >>
    /\ UNCHANGED << args, nifti_file, image_data, mips, updated_image_data,
                    img, call >>

Next ==
    \/ Load
    \/ Validate
    \/ Slices
    \/ Clip
    \/ Scale
    \/ Convert
    \/ Invert
    \/ Rotate
    \/ Save

Spec == Init /\ [][Next]_vars

(***************************************************************************)
(* One function at a time: a call with its arguments, and its return.      *)
(***************************************************************************)
Idle ==
    /\ pc = "Idle"
    /\ exit_code = -1
    /\ raised = "none"
    /\ log = << >>
    /\ files = {}
    /\ filename = << >>
    /\ threshold_percentile = 0
    /\ invert_image = FALSE
    /\ nifti_file = << >>
    /\ image_data = << >>
    /\ mips = << >>
    /\ cur = 0
    /\ step = "none"
    /\ updated_image_data = << >>
    /\ img = << >>

Pending(fn, a, p) ==
    [fn |-> fn, a |-> a, p |-> p, done |-> FALSE, ret |-> << >>,
     log |-> << >>]

Return(ret, records) ==
    /\ ~call.done
    /\ call' = [call EXCEPT !.done = TRUE, !.ret = ret, !.log = records]
    /\ UNCHANGED << pc, exit_code, raised, log, files, args, nifti_file,
                    image_data, mips, cur, step, updated_image_data, img >>

InitClip ==
    /\ Idle
    /\ call \in { Pending("clip", a, p) : a \in ClipArrays, p \in Percentiles }

CallClip ==
    /\ call.fn = "clip"
    /\ LET r == set_min_max_threshold_value(call.a, call.p)
       IN  Return(r.data, r.log)

SpecClip == InitClip /\ [][CallClip]_vars

InitScale ==
    /\ Idle
    /\ call \in { Pending("scale", a, 0) : a \in ScaleArrays }

CallScale ==
    /\ call.fn = "scale"
    /\ \E nan_cast \in CastChoices(call.a) :
          Return(scale_image_data(call.a, nan_cast), << Info("scaling") >>)

SpecScale == InitScale /\ [][CallScale]_vars

InitSlices ==
    /\ Idle
    /\ call \in { Pending("slices", v, 0) : v \in SliceVolumes }

CallSlices ==
    /\ call.fn = "slices"
    /\ Return(get_image_slices_data(call.a), << >>)

SpecSlices == InitSlices /\ [][CallSlices]_vars

(***************************************************************************)
(* Properties                                                              *)
(***************************************************************************)
Levels == {log[i].level : i \in 1..Len(log)}

LastLogged == log[Len(log)]

OutputName(k) == create_mips_file_name(filename, FileTypes[k])

AllOutputs == {OutputName(k) : k \in 1..3}

FirstOutputs(n) == {OutputName(k) : k \in 1..n}

PcOrder ==
    { << "Loading", "Validating" >>, << "Validating", "Rendering" >>,
      << "Rendering", "Exporting" >>, << "Exporting", "Done" >> }
    \cup { << from, "Aborted" >> :
           from \in {"Loading", "Validating", "Rendering", "Exporting"} }

C1_Order == pc' # pc => << pc, pc' >> \in PcOrder

C1_Ending ==
    /\ pc \in {"Loading", "Validating", "Rendering", "Exporting", "Done",
               "Aborted"}
    /\ (exit_code # -1) <=> (pc \in {"Done", "Aborted"})
    /\ pc = "Done" => exit_code = 0 /\ files = AllOutputs
    /\ pc = "Aborted" => exit_code = 1 /\ files # AllOutputs
    /\ files = AllOutputs /\ Cardinality(AllOutputs) = 3 => pc = "Done"

\* C1: a run of main() goes through Loading, Validating, Rendering and
\* Exporting in this order; it has ended exactly when it is in Done or in
\* Aborted; it is in Done, with exit code 0, if and only if the three images
\* are written, and every other ended run is in Aborted with exit code 1.
C1_StepsAndExitCode == []C1_Ending /\ [][C1_Order]_vars

C1_Witness == pc = "Done" /\ exit_code = 0 /\ Cardinality(files) = 3

LoadFailed == pc = "Aborted" /\ nifti_file = << >>

\* C2: whenever the load of the input path has failed, an error is logged,
\* the exit status is not 0, no projection is rendered and no file written.
C2_LoadFailureLoggedAndClean ==
    LoadFailed =>
        /\ "error" \in Levels
        /\ exit_code # 0 /\ exit_code # -1
        /\ mips = << >>
        /\ files = {}

ThreeIntDims(shape) ==
    Len(shape) = 3 /\ \A i \in 1..3 : shape[i].int

C3_Step ==
    pc = "Validating" /\ pc' # pc =>
        IF ThreeIntDims(nifti_file.shape)
        THEN pc' = "Rendering" /\ exit_code' = -1
        ELSE /\ pc' = "Aborted"
             /\ exit_code' = 1
             /\ LastLogged'.msg = "exiting"
             /\ "error" \in Levels'

C3_Rejected ==
    nifti_file # << >> /\ ~ThreeIntDims(nifti_file.shape) =>
        /\ pc \in {"Validating", "Aborted"}
        /\ image_data = << >> /\ mips = << >> /\ img = << >>
        /\ files = {}

\* C3: a loaded volume whose shape is not three int dimensions makes main()
\* log an error and exit with status 1, with no projection extracted or
\* rendered and no file written; a volume of three int dimensions goes on to
\* Rendering.
C3_DimensionCheck == []C3_Rejected /\ [][C3_Step]_vars

C3_Witness ==
    /\ pc = "Aborted" /\ nifti_file # << >>
    /\ Len(nifti_file.shape) = 3 /\ ~ThreeIntDims(nifti_file.shape)

C4_Step ==
    /\ files \subseteq files'
    /\ files' # files =>
          /\ pc = "Exporting"
          /\ files' = files \cup {OutputName(cur)}
          /\ OutputName(cur) \notin files
    /\ pc = "Exporting" /\ pc' = "Aborted" =>
          /\ files' = FirstOutputs(cur - 1)
          /\ LastLogged'.level = "error"
          /\ exit_code' = 1

C4_Written ==
    /\ pc = "Exporting" => cur \in 1..3 /\ files = FirstOutputs(cur - 1)
    /\ pc \in {"Loading", "Validating", "Rendering"} => files = {}
    /\ \E n \in 0..3 : files = FirstOutputs(n)

\* C4: the images are written in the order sagittal, coronal, axial, each at
\* most once; when the k-th write fails the error is logged, the run exits
\* with status 1, the k-1 images written before stay and no later image is
\* written.
C4_ExportOrderNoRollback == []C4_Written /\ [][C4_Step]_vars

C4_Witness ==
    /\ pc = "Aborted" /\ Cardinality(files) = 2
    /\ LastLogged.level = "error"

Projection(k) == get_image_slices_data(image_data)[k]

\* C5: with a percentile outside [0, 100] the clipper leaves every element of
\* the projection as it was, logs an error and raises nothing: the renderer
\* is at its scaling step with the unclipped projection, and the run goes on.
C5_InvalidPercentileSkipsClip ==
    pc = "Rendering" /\ step = "scale"
    /\ (threshold_percentile < 0 \/ threshold_percentile > 100) =>
        /\ updated_image_data = Projection(cur)
        /\ mips[cur] = Projection(cur)
        /\ LastLogged.level = "error"
        /\ raised = "none" /\ exit_code = -1

C5_Witness ==
    /\ pc = "Rendering" /\ step = "scale" /\ threshold_percentile < 0
    /\ ~IsConstant(updated_image_data)
    /\ LastLogged.level = "error"

At(a, c) == a[c[1]][c[2]]

ClipHighOf(c) == Percentile(c.a, c.p)

ClipLowOf(c) == Percentile(c.a, 100 - c.p)

Clipped == call.fn = "clip" /\ call.done /\ 0 <= call.p /\ call.p <= 100

\* C6 as claimed: for every p in [0, 100], an element below low becomes low,
\* an element above high becomes high, any other keeps its value.
C6_ClampAnyPercentile ==
    Clipped =>
        \A c \in Cells(call.a) :
            /\ At(call.a, c) < ClipLowOf(call) =>
                  At(call.ret, c) = ClipLowOf(call)
            /\ At(call.a, c) > ClipHighOf(call) =>
                  At(call.ret, c) = ClipHighOf(call)
            /\ ~(At(call.a, c) < ClipLowOf(call))
               /\ ~(At(call.a, c) > ClipHighOf(call)) =>
                  At(call.ret, c) = At(call.a, c)

\* C6, amended: when low <= high (as for every p in [50, 100]) the elements
\* are clamped as claimed; when low > high every element becomes high.
C6_ClampOrdered ==
    Clipped =>
        /\ call.p >= 50 => ClipLowOf(call) <= ClipHighOf(call)
        /\ \A c \in Cells(call.a) :
              IF ClipLowOf(call) <= ClipHighOf(call)
              THEN /\ At(call.a, c) < ClipLowOf(call) =>
                         At(call.ret, c) = ClipLowOf(call)
                   /\ At(call.a, c) > ClipHighOf(call) =>
                         At(call.ret, c) = ClipHighOf(call)
                   /\ At(call.a, c) >= ClipLowOf(call)
                      /\ At(call.a, c) <= ClipHighOf(call) =>
                         At(call.ret, c) = At(call.a, c)
              ELSE At(call.ret, c) = ClipHighOf(call)

C6_Witness ==
    /\ Clipped /\ call.p = 75
    /\ \E c, d \in Cells(call.a) :
          /\ At(call.a, c) < ClipLowOf(call)
          /\ At(call.ret, c) = ClipLowOf(call)
          /\ At(call.a, d) > ClipHighOf(call)
          /\ At(call.ret, d) = ClipHighOf(call)

\* C7: for a volume of shape (X, Y, Z) the three projections have the shapes
\* (Y, Z), (X, Z) and (X, Y), and each element is the largest value of the
\* volume along the collapsed axis.
C7_ProjectionsAreMaxima ==
    call.fn = "slices" /\ call.done =>
        LET v  == call.a
            nx == Len(v)
            ny == Len(v[1])
            nz == Len(v[1][1])
            sag == call.ret[1]
            cor == call.ret[2]
            axi == call.ret[3]
            IsMax(m, S) == m \in S /\ \A e \in S : e <= m
        IN  /\ Len(call.ret) = 3
            /\ Shape2(sag) = << ny, nz >>
            /\ Shape2(cor) = << nx, nz >>
            /\ Shape2(axi) = << nx, ny >>
            /\ \A y \in 1..ny, z \in 1..nz :
                  IsMax(sag[y][z], {v[x][y][z] : x \in 1..nx})
            /\ \A x \in 1..nx, z \in 1..nz :
                  IsMax(cor[x][z], {v[x][y][z] : y \in 1..ny})
            /\ \A x \in 1..nx, y \in 1..ny :
                  IsMax(axi[x][y], {v[x][y][z] : z \in 1..nz})

C7_Witness ==
    /\ call.fn = "slices" /\ call.done
    /\ Len(call.a) = 1 /\ Len(call.a[1]) = 2 /\ Len(call.a[1][1]) = 3
    /\ Shape2(call.ret[1]) = << 2, 3 >>
    /\ Shape2(call.ret[2]) = << 1, 3 >>
    /\ call.ret[2][1][1] > call.a[1][1][1]

Scaled == call.fn = "scale" /\ call.done

\* C9: for an array of non-zero range every output element is in [0, 255],
\* the smallest input maps to 0, the largest to 255, and a < b in the input
\* gives scaled(a) <= scaled(b).
C9_ScaleRangeAndMonotone ==
    Scaled /\ ~IsConstant(call.a) =>
        LET vals == {At(call.a, c) : c \in Cells(call.a)}
        IN  \A c \in Cells(call.a) :
              /\ At(call.ret, c) \in 0..255
              /\ At(call.a, c) = MinOf(vals) => At(call.ret, c) = 0
              /\ At(call.a, c) = MaxOf(vals) => At(call.ret, c) = 255
              /\ \A d \in Cells(call.a) :
                    At(call.a, c) < At(call.a, d) =>
                        At(call.ret, c) <= At(call.ret, d)

StepOrder ==
    { << "none", "slices" >>, << "slices", "clip" >>, << "clip", "scale" >>, << "scale", "convert" >>,
      << "convert", "invert" >>, << "invert", "rotate" >>,
      << "rotate", "clip" >>, << "rotate", "save" >>, << "save", "none" >> }

C10_Step ==
    /\ step' # step => << step, step' >> \in StepOrder
    /\ step = "invert" /\ step' = "rotate" =>
          /\ img = updated_image_data
          /\ \A c \in Cells(img) :
                At(img', c) = IF invert_image THEN 255 - At(img, c)
                              ELSE At(img, c)
    /\ step = "rotate" /\ step' # step =>
          /\ img' # << >> /\ Shape2(img') = Shape2(img)
          /\ mips' = [mips EXCEPT ![cur] = img']

\* the image process_mips has just returned: the scaled array, inverted if
\* asked, turned a quarter counter-clockwise about its centre (pixels whose
\* source lies outside the image are 0)
C10_Returned ==
    pc \in {"Rendering", "Exporting"} /\ step \in {"clip", "save"}
    /\ img # << >> /\ (step = "clip" => cur > 1) =>
        LET w == Cols(img)
            h == Rows(img)
            src == updated_image_data
        IN  /\ Shape2(img) = Shape2(src)
            /\ \A x \in 0..(w - 1), y \in 0..(h - 1) :
                  LET xin == ((w + h - 1) \div 2) - y
                      yin == ((h - w + 1) \div 2) + x
                  IN  img[y + 1][x + 1] =
                        IF xin \in 0..(w - 1) /\ yin \in 0..(h - 1)
                        THEN IF invert_image
                             THEN 255 - src[yin + 1][xin + 1]
                             ELSE src[yin + 1][xin + 1]
                        ELSE 0

\* C10: process_mips runs clip, scale, convert, invert, rotate in this order
\* for each of the three projections; the inversion maps each scaled pixel v
\* to 255 - v exactly when invert_image is set; the rotation comes last,
\* whatever the flag.
C10_RenderOrder == []C10_Returned /\ [][C10_Step]_vars

C10_Witness ==
    /\ pc = "Exporting" /\ invert_image
    /\ Shape2(img) = << 2, 2 >>
    /\ ~IsConstant(updated_image_data)
    /\ img[1][1] # img[2][2]

=============================================================================
